---- MODULE Spec2Model ----
(***************************************************************************)
(* A model of YTDownloader: the quality resolver, the stream selector, the *)
(* fetch executor, the mux pipeline, the URL checks and the playlist run   *)
(* of src/MyTube.py, src/Dialog.py and src/Thread.py.                      *)
(*                                                                         *)
(* A Python str is a sequence of one-character strings, so that slicing,   *)
(* int() parsing and character replacement are computed, not assumed.      *)
(* A Python call that may raise returns a record: [ok |-> TRUE, val |-> v] *)
(* or [ok |-> FALSE, exc |-> "<exception class>"].                         *)
(***************************************************************************)
EXTENDS Integers, Sequences, FiniteSets, TLC

\* ------------------------------------------------------------------ bounds

\* Number of entries of the resolution / bitrate catalogues a video may offer.
MaxLen == 4

\* Number of entries of the catalogues a video that is downloaded may offer.
MaxStreams == 2

\* ------------------------------------------------------------ Python values

Val(v) == [ok |-> TRUE, val |-> v]

Exc(e) == [ok |-> FALSE, exc |-> e]

\* Indexing that answers an empty value where Python raises IndexError.
PyIndexOrEmpty(seq, index) ==
    IF index >= 0 /\ index < Len(seq) THEN Val(seq[index + 1])
    ELSE IF index < 0 /\ index >= -Len(seq) THEN Val(seq[Len(seq) + index + 1])
    ELSE Val(<<>>)

\* seq[index] of Python: negative indexes count from the end, IndexError outside.
PyIndex(seq, index) ==
    IF index >= 0 /\ index < Len(seq) THEN Val(seq[index + 1])
    ELSE IF index < 0 /\ index >= -Len(seq) THEN Val(seq[Len(seq) + index + 1])
    ELSE Exc("IndexError")

\* s[:-k] of Python.
DropLast(s, k) == IF Len(s) <= k THEN <<>> ELSE SubSeq(s, 1, Len(s) - k)

DigitChars == <<"0", "1", "2", "3", "4", "5", "6", "7", "8", "9">>

IsDigit(c) == \E d \in 1..Len(DigitChars) : DigitChars[d] = c

DigitValue(c) == (CHOOSE d \in 1..Len(DigitChars) : DigitChars[d] = c) - 1

RECURSIVE PyInt(_)
\* int(s) of Python on a string of decimal digits.
PyInt(s) ==
    IF Len(s) = 0 THEN 0
    ELSE PyInt(SubSeq(s, 1, Len(s) - 1)) * Len(DigitChars) + DigitValue(s[Len(s)])

\* ---------------------------------------------------------------- MyTube.py

Highest == <<"H", "i", "g", "h", "e", "s", "t">>

Medium == <<"M", "e", "d", "i", "u", "m">>

Lowest == <<"L", "o", "w", "e", "s", "t">>

QUALITIES == <<Highest, Medium, Lowest>>

OptVideoWithAudio == "Video & Audio"

OptAudioOnly == "Audio Only"

OptVideoOnly == "Video Only"

OPTIONS == <<OptVideoWithAudio, OptAudioOnly, OptVideoOnly>>

InSeq(x, seq) == \E k \in 1..Len(seq) : seq[k] = x

\* The resolutions and bitrates YouTube serves, in the order a video lists them
\* (not sorted).
ResCatalogue ==
    << <<"4", "8", "0", "p">>, <<"1", "0", "8", "0", "p">>, <<"7", "2", "0", "p">>,
       <<"3", "6", "0", "p">>, <<"1", "4", "4", "p">>, <<"2", "4", "0", "p">> >>

AbrCatalogue ==
    << <<"1", "2", "8", "k", "b", "p", "s">>, <<"7", "0", "k", "b", "p", "s">>,
       <<"1", "6", "0", "k", "b", "p", "s">>, <<"5", "0", "k", "b", "p", "s">>,
       <<"4", "8", "k", "b", "p", "s">>, <<"2", "5", "6", "k", "b", "p", "s">> >>

Mp4Name == <<"v", ".", "m", "p", "4">>

WebmName == <<"a", ".", "w", "e", "b", "m">>

VideoStream(res) == [only_video |-> TRUE, only_audio |-> FALSE, resolution |-> res,
                     abr |-> <<>>, default_filename |-> Mp4Name]

AudioStream(abr) == [only_video |-> FALSE, only_audio |-> TRUE, resolution |-> <<>>,
                     abr |-> abr, default_filename |-> WebmName]

RECURSIVE StreamsOf(_, _, _)
\* yt.streams of a video offering the catalogue entries vs (video) and as (audio).
StreamsOf(vs, as, k) ==
    IF k = 0 THEN <<>>
    ELSE StreamsOf(vs, as, k - 1)
             \o (IF k \in vs THEN <<VideoStream(ResCatalogue[k])>> ELSE <<>>)
             \o (IF k \in as THEN <<AudioStream(AbrCatalogue[k])>> ELSE <<>>)

\* The YouTube object of the video id, with its title and its streams.
YouTube(id, title, vs, as) ==
    [video_id |-> id, title |-> title, streams |-> StreamsOf(vs, as, MaxLen)]

WebmVideoName == <<"v", ".", "w", "e", "b", "m">>

Mp4AudioName == <<"a", ".", "m", "p", "4">>

\* The stream of the same kind and quality in the other container.
OtherContainer(s) ==
    [s EXCEPT !.default_filename = IF s.only_video THEN WebmVideoName ELSE Mp4AudioName]

\* The YouTube object of a video that lists every quality twice: its mp4 video
\* and webm audio streams first, then the same qualities in the other container.
YouTubeTwice(id, title, vs, as) ==
    LET once == StreamsOf(vs, as, MaxLen)
    IN  [video_id |-> id, title |-> title,
         streams |-> once \o [k \in 1..Len(once) |-> OtherContainer(once[k])]]

\* yt.streams.filter(only_video=True)
FilterVideo(streams) == SelectSeq(streams, LAMBDA s : s.only_video)

\* yt.streams.filter(only_audio=True)
FilterAudio(streams) == SelectSeq(streams, LAMBDA s : s.only_audio)

\* The place of a character in the order Python compares strings by.
CharRank(c) ==
    IF IsDigit(c) THEN DigitValue(c)
    ELSE Len(DigitChars) + (CHOOSE k \in 1..4 : <<"b", "k", "p", "s">>[k] = c)

RECURSIVE StrGreaterEq(_, _)
\* a >= b of Python on two strings.
StrGreaterEq(a, b) ==
    IF Len(b) = 0 THEN TRUE
    ELSE IF Len(a) = 0 THEN FALSE
    ELSE IF a[1] # b[1] THEN CharRank(a[1]) > CharRank(b[1])
    ELSE StrGreaterEq(Tail(a), Tail(b))

RECURSIVE SortedLexDesc(_, _)
\* sorted(labels, reverse=True): the sort without its key.
SortedLexDesc(labels, cut) ==
    IF labels = {} THEN <<>>
    ELSE LET top == CHOOSE q \in labels : \A o \in labels : StrGreaterEq(q, o)
         IN  <<top>> \o SortedLexDesc(labels \ {top}, cut)

RECURSIVE SortedDesc(_, _)
\* sorted(labels, key=lambda q: int(q[:-cut]), reverse=True) of a set of labels.
SortedDesc(labels, cut) ==
    IF labels = {} THEN <<>>
    ELSE LET top == CHOOSE q \in labels :
                        \A o \in labels : PyInt(DropLast(q, cut)) >= PyInt(DropLast(o, cut))
         IN  <<top>> \o SortedDesc(labels \ {top}, cut)

ResSuffixLen == Len(<<"p">>)

AbrSuffixLen == Len(<<"k", "b", "p", "s">>)

allResolutions(yt) ==
    LET streams == FilterVideo(yt.streams)
        allRes == {streams[k].resolution : k \in 1..Len(streams)}
    IN  SortedDesc(allRes, ResSuffixLen)

allBitrates(yt) ==
    LET streams == FilterAudio(yt.streams)
        allAbr == {streams[k].abr : k \in 1..Len(streams)}
    IN  SortedDesc(allAbr, AbrSuffixLen)

\* The index with those of 'Highest' and 'Lowest' exchanged.
QualityIndexSwapped(quality, n) ==
    IF quality = Highest THEN -1
    ELSE IF quality = Medium THEN (n \div 2) + (n % 2)
    ELSE 0

\* The index chosen for 'Highest', 'Medium' or 'Lowest'.
QualityIndex(quality, n) ==
    IF quality = Highest THEN 0
    ELSE IF quality = Medium THEN (n \div 2) + (n % 2)
    ELSE -1

\* getResolution without its custom-quality branch.
getResolutionNoCustom(yt, quality) ==
    PyIndex(allResolutions(yt), QualityIndex(quality, Len(allResolutions(yt))))

getResolution(yt, quality) ==
    IF ~InSeq(quality, QUALITIES) THEN Val(quality)
    ELSE LET allRes == allResolutions(yt)
         IN  PyIndex(allRes, QualityIndex(quality, Len(allRes)))

getBitrate(yt, quality) ==
    IF ~InSeq(quality, QUALITIES) THEN Val(quality)
    ELSE LET allAbr == allBitrates(yt)
         IN  PyIndex(allAbr, QualityIndex(quality, Len(allAbr)))

\* ------------------------------------------------------- MyTube.py: URL checks

RECURSIVE IndexFrom(_, _, _)
\* The least zero-based position >= k at which sub occurs in s, or -1.
IndexFrom(s, sub, k) ==
    IF k + Len(sub) > Len(s) THEN -1
    ELSE IF SubSeq(s, k + 1, k + Len(sub)) = sub THEN k
    ELSE IndexFrom(s, sub, k + 1)

\* sub in s of Python.
Contains(s, sub) == IndexFrom(s, sub, 0) >= 0

PlaylistWord == <<"p", "l", "a", "y", "l", "i", "s", "t">>

\* A URL taken for a playlist as soon as it holds "list".
isUrlPlaylistAnyList(url) == Contains(url, <<"l", "i", "s", "t">>)

isUrlPlaylist(url) == Contains(url, PlaylistWord)

ListWord == <<"l", "i", "s", "t">>

isVideoInPlaylist(url) == Contains(url, ListWord)

\* "https://www.youtube.com/playlist?"
PlaylistUrlPrefix ==
    <<"h", "t", "t", "p", "s", ":", "/", "/", "w", "w", "w", ".", "y", "o",
      "u", "t", "u", "b", "e", ".", "c", "o", "m", "/", "p", "l", "a", "y",
      "l", "i", "s", "t", "?">>

\* extractPlaylistUrl slicing from the last occurrence of "list".
extractPlaylistUrlLast(url) ==
    LET at == {k \in 0..(Len(url) - Len(ListWord)) :
                  SubSeq(url, k + 1, k + Len(ListWord)) = ListWord}
    IN  IF at = {} THEN url
        ELSE PlaylistUrlPrefix
                 \o SubSeq(url, (CHOOSE k \in at : \A o \in at : k >= o) + 1, Len(url))

extractPlaylistUrl(url) ==
    IF isVideoInPlaylist(url)
    THEN LET id == SubSeq(url, IndexFrom(url, ListWord, 0) + 1, Len(url))
         IN  PlaylistUrlPrefix \o id
    ELSE url

\* The classes of pytube.exceptions and urllib.error that the checks name, each
\* with its base class.
ExcBase ==
    [RegexMatchError |-> "ExtractError", ExtractError |-> "PytubeError",
     HTMLParseError |-> "PytubeError", MaxRetriesExceeded |-> "PytubeError",
     AgeRestrictedError |-> "VideoUnavailable", LiveStreamError |-> "VideoUnavailable",
     VideoPrivate |-> "VideoUnavailable", RecordingUnavailable |-> "VideoUnavailable",
     MembersOnly |-> "VideoUnavailable", VideoRegionBlocked |-> "VideoUnavailable",
     VideoUnavailable |-> "PytubeError", PytubeError |-> "Exception",
     HTTPError |-> "URLError", URLError |-> "OSError", OSError |-> "Exception",
     KeyError |-> "LookupError", IndexError |-> "LookupError",
     LookupError |-> "Exception", Exception |-> "BaseException"]

RECURSIVE IsInstance(_, _)
\* isinstance(e, cls) for an exception of class e.
IsInstance(e, cls) ==
    \/ e = cls
    \/ /\ e \in DOMAIN ExcBase
       /\ IsInstance(ExcBase[e], cls)

None == "None"

MsgInvalidUrl == "Invalid URL!"

MsgAgeRestricted == "Cannot download an age-restricted video!"

MsgLiveStream == "Cannot download a live-stream!"

MsgPrivate == "Cannot download a private video!"

MsgRecordingUnavailable == "No live stream recording available!"

MsgMembersOnly == "Cannot download a members-only video!"

MsgRegionBlocked == "Video is blocked in your region!"

MsgUnavailable == "Video is unavailable!"

MsgInternal == "An internal error occurred! Please try again."

MsgEmptyPlaylist == "Playlist must not be empty!"

MsgInvalidPlaylist == "Invalid URL! Make sure the playlist is public and not empty."

\* The except clauses with the general VideoUnavailable clause moved to the front.
UnavailableFirstHandlers ==
    << <<"RegexMatchError", MsgInvalidUrl>>,
       <<"VideoUnavailable", MsgUnavailable>>,
       <<"AgeRestrictedError", MsgAgeRestricted>>,
       <<"LiveStreamError", MsgLiveStream>>,
       <<"VideoPrivate", MsgPrivate>>,
       <<"RecordingUnavailable", MsgRecordingUnavailable>>,
       <<"MembersOnly", MsgMembersOnly>>,
       <<"VideoRegionBlocked", MsgRegionBlocked>>,
       <<"PytubeError", MsgInternal>> >>

\* The except clauses of checkVideoUrl, in the order they are written.
VideoHandlers ==
    << <<"RegexMatchError", MsgInvalidUrl>>,
       <<"AgeRestrictedError", MsgAgeRestricted>>,
       <<"LiveStreamError", MsgLiveStream>>,
       <<"VideoPrivate", MsgPrivate>>,
       <<"RecordingUnavailable", MsgRecordingUnavailable>>,
       <<"MembersOnly", MsgMembersOnly>>,
       <<"VideoRegionBlocked", MsgRegionBlocked>>,
       <<"VideoUnavailable", MsgUnavailable>>,
       <<"PytubeError", MsgInternal>> >>

\* try/except: the first clause whose class the raised exception is an instance
\* of returns its message; with no such clause the exception propagates.
Handle(raised, handlers) ==
    LET hits == {k \in 1..Len(handlers) : IsInstance(raised, handlers[k][1])}
    IN  IF hits = {} THEN Exc(raised)
        ELSE Val(handlers[CHOOSE k \in hits : \A o \in hits : k <= o][2])

\* What the try body of checkVideoUrl raises ("none": nothing) for a remote video
\* v: YouTube(url), then yt.age_restricted, then yt.check_availability().
VideoTryBody(v) ==
    IF ~v.regex_ok THEN "RegexMatchError"
    ELSE IF v.fetch_exc # "none" THEN v.fetch_exc
    ELSE IF v.age_restricted THEN "AgeRestrictedError"
    ELSE v.availability

checkVideoUrl(v) ==
    IF VideoTryBody(v) = "none" THEN Val(None)
    ELSE Handle(VideoTryBody(v), VideoHandlers)

PlaylistHandlers ==
    << <<"KeyError", MsgInvalidPlaylist>>, <<"HTTPError", MsgInvalidPlaylist>> >>

\* What the try body of checkPlaylistUrl raises for a remote playlist p:
\* pl.title, and pl.videos only when the title is truthy.
PlaylistTryBody(p) ==
    IF p.title_exc # "none" THEN p.title_exc
    ELSE IF p.title # <<>> THEN p.videos_exc
    ELSE "none"

checkPlaylistUrl(p) ==
    IF PlaylistTryBody(p) # "none" THEN Handle(PlaylistTryBody(p), PlaylistHandlers)
    ELSE IF p.title # <<>> /\ p.nvideos = 0 THEN Val(MsgEmptyPlaylist)
    ELSE Val(None)

\* checkUrl(url) with the remote video v and the remote playlist p behind url.
checkUrl(url, v, p) ==
    IF isUrlPlaylist(url) THEN checkPlaylistUrl(p) ELSE checkVideoUrl(v)

\* ------------------------------------------------------- MyTube.py: downloads

\* The illegal characters without the asterisk.
IllegalsNoStar == <<"<", ">", ":", "\"", "/", "\\", "|", "?">>

Illegals == <<"<", ">", ":", "\"", "/", "\\", "|", "?", "*">>

\* title.replace(char, "_", 1): only the first occurrence is replaced.
ReplaceFirst(title, char) ==
    [k \in 1..Len(title) |->
        IF title[k] = char /\ \A j \in 1..(k - 1) : title[j] # char THEN "_"
        ELSE title[k]]

\* title.replace(char, "_")
Replace(title, char) ==
    [k \in 1..Len(title) |-> IF title[k] = char THEN "_" ELSE title[k]]

RECURSIVE ReplaceAll(_, _, _)
\* The loop of filterTitle over the first n illegal characters.
ReplaceAll(title, illegals, n) ==
    IF n = 0 THEN title
    ELSE Replace(ReplaceAll(title, illegals, n - 1), illegals[n])

filterTitle(title) == ReplaceAll(title, Illegals, Len(Illegals))

\* os.path.splitext(filename)[1]: from the last dot, unless the name starts there.
getFileExt(filename) ==
    LET dots == {k \in 1..Len(filename) : filename[k] = "."}
        last == CHOOSE k \in dots : \A o \in dots : k >= o
    IN  IF dots = {} \/ last = 1 THEN <<>>
        ELSE SubSeq(filename, last, Len(filename))

\* os.path.join(dir, name)
PathJoin(dir, name) == dir \o <<"/">> \o name

\* What the fetch capability of a stream may do: complete, or raise after it
\* has written part of the file, or raise before it has created the file.
FetchOutcomes == {"ok", "fail_partial", "fail_clean"}

\* A call that raised exc without touching the file system.
Raised(exc) == [ret |-> Exc(exc), path |-> <<>>, written |-> FALSE]

\* downloadStream(stream, title, dir) when stream.download ends as outcome:
\* what it returns or raises, the path it wrote to, and whether a file is
\* left at that path.
downloadStream(stream, title, dir, outcome) ==
    LET ext == getFileExt(stream.default_filename)
        path == PathJoin(dir, filterTitle(title) \o ext)
    IN  [ret |-> IF outcome = "ok" THEN Val(path) ELSE Exc("URLError"),
         path |-> path,
         written |-> outcome # "fail_clean"]

\* downloadVideo taking the last stream of the query instead of the first.
downloadVideoLast(yt, title, res, dir, outcome) ==
    LET found == SelectSeq(FilterVideo(yt.streams), LAMBDA s : s.resolution = res)
    IN  IF Len(found) = 0 THEN Raised("IndexError")
        ELSE downloadStream(found[Len(found)], title, dir, outcome)

downloadVideo(yt, title, res, dir, outcome) ==
    LET found == SelectSeq(FilterVideo(yt.streams), LAMBDA s : s.resolution = res)
    IN  IF Len(found) = 0 THEN Raised("IndexError")
        ELSE downloadStream(found[1], title, dir, outcome)

downloadAudio(yt, title, abr, dir, outcome) ==
    LET found == SelectSeq(FilterAudio(yt.streams), LAMBDA s : s.abr = abr)
    IN  IF Len(found) = 0 THEN Raised("IndexError")
        ELSE downloadStream(found[1], title, dir, outcome)

MkvExt == <<".", "m", "k", "v">>

\* A uuid4().hex that is the same at every draw.
UuidHexFixed(u) == <<"-", DigitChars[1]>>

\* uuid.uuid4().hex of the u-th uuid drawn (u from 0): each draw gives a value
\* no earlier draw gave.
UuidHex(u) == <<"-", DigitChars[u + 1]>>

\* ------------------------------------------------------------------- state

VARIABLES
    r_yt,        \* resolver: the video whose qualities are resolved
    r_quality,   \* resolver: <<video preference, audio preference>>
    r_res,       \* resolver: what getResolution returned or raised ("none" before)
    r_abr,       \* resolver: what getBitrate returned or raised ("none" before)
    r_allRes,    \* resolver: what allResolutions returned ("none" before)
    r_allAbr,    \* resolver: what allBitrates returned ("none" before)
    c_url,       \* URL check: the URL
    c_video,     \* URL check: the remote video behind the URL
    c_playlist,  \* URL check: the remote playlist behind the URL
    c_result,    \* URL check: what checkUrl returned or raised ("none" before)
    c_extracted, \* URL check: what extractPlaylistUrl returned ("none" before)
    files,       \* the paths at which a file exists
    log,         \* the calls made so far to the fetch capability, ffmpeg, os.remove
    uuids,       \* the number of uuids drawn so far
    m_pc,        \* downloadBoth: the statement it is at
    m_call,      \* downloadBoth: its arguments [yt, title, res, abr, dir]
    m_title,     \* downloadBoth: title after filterTitle
    m_video,     \* downloadBoth: the path generated for the video stream
    m_audio,     \* downloadBoth: the path generated for the audio stream
    m_output,    \* downloadBoth: output
    m_status,    \* downloadBoth: the exit status os.system returned for ffmpeg
    m_result,    \* downloadBoth: what it returned or raised ("none" before)
    attr,        \* the preferences [confirmDownload, closeAfterDownload]
    d_pl,        \* playlist dialog: pl.videos
    d_items,     \* playlist dialog: the items of listWidget, [text, checked]
    d_quality,   \* playlist dialog: qualFrame [opt, vidQuality, audQuality]
    d_startEnabled, \* playlist dialog: startButton is enabled
    d_enabled,   \* playlist dialog: the dialog is enabled
    d_windowTitle,  \* playlist dialog: the window title
    d_closed,    \* playlist dialog: the dialog has been closed (and deleted)
    d_timers,    \* playlist dialog: the title-reset timers set and not yet fired
    w,           \* the worker thread of Thread.start running download()
    q_finished,  \* deliveries of the thread's finished signal not yet handled
    s_title,     \* sanitiser: the title given
    s_safe,      \* sanitiser: filterTitle(title) ("none" before)
    s_again,     \* sanitiser: filterTitle of that result ("none" before)
    u_text,      \* main window: the text of urlField
    u_label,     \* main window: infoLabel, [kind, about]
    u_next,      \* main window: nextButton is enabled
    u_checks,    \* main window: the workers started for checkUrl, [pc, url]
    u_dialog,    \* main window: the dialog next() made, [kind, url, shown, fetch, exc]
    g_threads    \* dialog: the threads Thread.start started for download()

r_vars == <<r_yt, r_quality, r_res, r_abr, r_allRes, r_allAbr>>

c_vars == <<c_url, c_video, c_playlist, c_result, c_extracted>>

f_vars == <<files, log, uuids>>

m_vars == <<m_pc, m_call, m_title, m_video, m_audio, m_output, m_status, m_result>>

d_vars == <<attr, d_pl, d_items, d_quality, d_startEnabled, d_enabled, d_windowTitle,
            d_closed, d_timers, w, q_finished>>

\* The sanitiser, the main window and the threads of a dialog.
x_vars == <<s_title, s_safe, s_again, u_text, u_label, u_next, u_checks, u_dialog,
            g_threads>>

vars == <<r_vars, c_vars, f_vars, m_vars, d_vars, x_vars>>

NoResult == [ok |-> FALSE, exc |-> "none"]

Title1 == <<"a", ":", "b">>

CatalogueIdx == 1..MaxLen

\* A literal resolution and a literal bitrate no video offers.
Res4320 == <<"4", "3", "2", "0", "p">>

Abr999 == <<"9", "9", "9", "k", "b", "p", "s">>

VideoPrefs ==
    {QUALITIES[k] : k \in 1..Len(QUALITIES)}
        \cup {ResCatalogue[k] : k \in CatalogueIdx} \cup {Res4320}

AudioPrefs ==
    {QUALITIES[k] : k \in 1..Len(QUALITIES)}
        \cup {AbrCatalogue[k] : k \in CatalogueIdx} \cup {Abr999}

R_Idle ==
    /\ r_yt = YouTube(1, Title1, {}, {})
    /\ r_quality = <<Highest, Highest>>
    /\ r_res = NoResult
    /\ r_abr = NoResult
    /\ r_allRes = NoResult
    /\ r_allAbr = NoResult

\* The largest number of videos of a playlist.
MaxVideos == 2

UrlWatch == <<"w", "a", "t", "c", "h", "?", "v", "=", "X">>

UrlPlaylist == <<"p", "l", "a", "y", "l", "i", "s", "t", "?", "l", "i", "s", "t", "=", "Y">>

UrlWatchInList == <<"w", "?", "v", "=", "X", "&", "l", "i", "s", "t", "=", "Y">>

UrlListTwice ==
    <<"w", "?", "l", "i", "s", "t", "=", "Y", "&", "l", "i", "s", "t", "e", "n">>

Urls == {UrlWatch, UrlPlaylist, UrlWatchInList, UrlListTwice}

\* What a network fetch or a lookup in the fetched page may raise.
FetchExcs == {"none", "URLError", "HTTPError", "KeyError"}

\* What yt.check_availability() may raise.
AvailabilityExcs ==
    {"none", "LiveStreamError", "VideoPrivate", "RecordingUnavailable", "MembersOnly",
     "VideoRegionBlocked", "VideoUnavailable", "URLError"}

RemoteVideos ==
    [regex_ok : BOOLEAN, fetch_exc : FetchExcs \cup {"HTMLParseError"},
     age_restricted : BOOLEAN, availability : AvailabilityExcs]

RemotePlaylists ==
    [title_exc : FetchExcs, title : {<<>>, Title1}, videos_exc : FetchExcs,
     nvideos : 0..MaxVideos]

AVideo == [regex_ok |-> TRUE, fetch_exc |-> "none", age_restricted |-> FALSE,
           availability |-> "none"]

APlaylist == [title_exc |-> "none", title |-> Title1, videos_exc |-> "none",
              nvideos |-> MaxVideos]

C_Idle ==
    /\ c_url = UrlWatch
    /\ c_video = AVideo
    /\ c_playlist = APlaylist
    /\ c_result = NoResult
    /\ c_extracted = NoResult

Title2 == <<"c", "?">>

Dir1 == <<"~">>

\* The videos a download is made of.
DlVideos(id) ==
    {YouTube(id, t, vs, as) :
        t \in {Title1}, vs \in SUBSET (1..MaxStreams), as \in SUBSET (1..MaxStreams)}

\* The same videos with every quality listed in both containers.
DlVideosTwice(id) ==
    {YouTubeTwice(id, t, vs, as) :
        t \in {Title1}, vs \in SUBSET (1..MaxStreams), as \in SUBSET (1..MaxStreams)}

DlRes == {ResCatalogue[k] : k \in 1..MaxStreams} \cup {Res4320}

DlAbr == {AbrCatalogue[k] : k \in 1..MaxStreams} \cup {Abr999}

NoCall == [yt |-> YouTube(1, Title1, {}, {}), title |-> <<>>, res |-> <<>>,
           abr |-> <<>>, dir |-> <<>>]

F_Idle ==
    /\ files = {}
    /\ log = <<>>
    /\ uuids = 0

M_Locals ==
    /\ m_title = <<>>
    /\ m_video = <<>>
    /\ m_audio = <<>>
    /\ m_output = <<>>
    /\ m_status = 0
    /\ m_result = NoResult

M_Idle ==
    /\ m_pc = "idle"
    /\ m_call = NoCall
    /\ M_Locals

\* No worker thread has been started.
NoWorker == [pc |-> "none", rows |-> <<>>, i |-> 0, opt |-> OptVideoWithAudio,
             vidQuality |-> Highest, audQuality |-> Highest, dir |-> <<>>,
             yt |-> YouTube(1, Title1, {}, {}), title |-> <<>>, res |-> <<>>,
             abr |-> <<>>, exc |-> "none"]

D_Idle ==
    /\ attr = [confirmDownload |-> TRUE, closeAfterDownload |-> FALSE]
    /\ d_pl = <<>>
    /\ d_items = <<>>
    /\ d_quality = [opt |-> OptVideoWithAudio, vidQuality |-> Highest,
                    audQuality |-> Highest]
    /\ d_startEnabled = FALSE
    /\ d_enabled = FALSE
    /\ d_windowTitle = [text |-> "", k |-> 0, n |-> 0]
    /\ d_closed = FALSE
    /\ d_timers = 0
    /\ w = NoWorker
    /\ q_finished = 0

\* filterTitle has not been called.
S_Idle ==
    /\ s_title = <<>>
    /\ s_safe = NoResult
    /\ s_again = NoResult

\* The main window as constructed: no text, no status, Next disabled.
U_Idle ==
    /\ u_text = <<>>
    /\ u_label = [text |-> "", about |-> <<>>]
    /\ u_next = FALSE
    /\ u_checks = <<>>
    /\ u_dialog = [kind |-> "none", url |-> <<>>, shown |-> FALSE, fetch |-> FALSE,
                   exc |-> "none"]

\* Thread.start has not been called for a download.
G_Idle == g_threads = <<>>

\* ---------------------------------------------------- resolver specification

InitResolve ==
    /\ S_Idle /\ U_Idle /\ G_Idle
    /\ C_Idle
    /\ F_Idle
    /\ M_Idle
    /\ D_Idle
    /\ \E vs \in SUBSET CatalogueIdx, as \in SUBSET CatalogueIdx :
           r_yt \in {YouTube(1, Title1, vs, as), YouTubeTwice(1, Title1, vs, as)}
    /\ r_quality \in VideoPrefs \X AudioPrefs
    /\ r_res = NoResult
    /\ r_abr = NoResult
    /\ r_allRes = NoResult
    /\ r_allAbr = NoResult

ResolveVideo ==
    /\ r_res = NoResult
    /\ r_res' = getResolution(r_yt, r_quality[1])
    /\ UNCHANGED <<r_yt, r_quality, r_abr, r_allRes, r_allAbr>>
    /\ UNCHANGED <<c_vars, f_vars, m_vars, d_vars, x_vars>>

ResolveAudio ==
    /\ r_abr = NoResult
    /\ r_abr' = getBitrate(r_yt, r_quality[2])
    /\ UNCHANGED <<r_yt, r_quality, r_res, r_allRes, r_allAbr>>
    /\ UNCHANGED <<c_vars, f_vars, m_vars, d_vars, x_vars>>

\* VideoDialog.fetch: the quality boxes are filled with allResolutions(yt) and
\* allBitrates(yt).
EnumerateQualities ==
    /\ r_allRes = NoResult
    /\ r_allRes' = Val(allResolutions(r_yt))
    /\ r_allAbr' = Val(allBitrates(r_yt))
    /\ UNCHANGED <<r_yt, r_quality, r_res, r_abr>>
    /\ UNCHANGED <<c_vars, f_vars, m_vars, d_vars, x_vars>>

NextResolve == ResolveVideo \/ ResolveAudio \/ EnumerateQualities

SpecResolve == InitResolve /\ [][NextResolve]_vars

\* --------------------------------------------------- URL check specification

InitCheck ==
    /\ S_Idle /\ U_Idle /\ G_Idle
    /\ R_Idle
    /\ F_Idle
    /\ M_Idle
    /\ D_Idle
    /\ c_url \in Urls
    /\ \/ c_video \in RemoteVideos /\ c_playlist = APlaylist /\ ~isUrlPlaylist(c_url)
       \/ c_video = AVideo /\ c_playlist \in RemotePlaylists /\ isUrlPlaylist(c_url)
    /\ c_result = NoResult
    /\ c_extracted = NoResult

CheckUrl ==
    /\ c_result = NoResult
    /\ c_result' = checkUrl(c_url, c_video, c_playlist)
    /\ UNCHANGED <<r_vars, c_url, c_video, c_playlist, c_extracted, f_vars, m_vars, d_vars, x_vars>>

\* MyTube.extractPlaylistUrl(url) of the URL entered.
ExtractPlaylistUrl ==
    /\ c_extracted = NoResult
    /\ c_extracted' = Val(extractPlaylistUrl(c_url))
    /\ UNCHANGED <<r_vars, c_url, c_video, c_playlist, c_result, f_vars, m_vars, d_vars, x_vars>>

NextCheck == CheckUrl \/ ExtractPlaylistUrl

SpecCheck == InitCheck /\ [][NextCheck]_vars

\* ------------------------------------------------- MyTube.py: downloadBoth

Event(op, yt, path) == [op |-> op, vid |-> yt.video_id, path |-> path, k |-> 0, n |-> 0]

\* The calls of a download function that calls the fetch capability once more
\* after it failed.
FetchEventsRetried(op, yt, d) ==
    IF d.path = <<>> THEN <<>>
    ELSE IF d.ret.ok THEN <<Event(op, yt, d.path)>>
    ELSE <<Event(op, yt, d.path), Event(op, yt, d.path)>>

\* The calls that a download function ending as d adds to the log.
FetchEvents(op, yt, d) == IF d.path = <<>> THEN <<>> ELSE <<Event(op, yt, d.path)>>

\* title = filterTitle(title); video = downloadVideo(yt, f"{title}{uuid4().hex}", res, dir)
MuxFetchVideo ==
    /\ m_pc = "video"
    /\ \E outcome \in FetchOutcomes :
           LET title == filterTitle(m_call.title)
               d == downloadVideo(m_call.yt, title \o UuidHex(uuids), m_call.res,
                                  m_call.dir, outcome)
           IN  /\ m_title' = title
               /\ m_video' = d.path
               /\ files' = IF d.written THEN files \cup {d.path} ELSE files
               /\ log' = log \o FetchEvents("fetch_video", m_call.yt, d)
               /\ m_pc' = IF d.ret.ok THEN "audio" ELSE "raised"
               /\ m_result' = IF d.ret.ok THEN m_result ELSE d.ret
    /\ uuids' = uuids + 1
    /\ UNCHANGED <<m_call, m_audio, m_output, m_status>>
    /\ UNCHANGED <<r_vars, c_vars, d_vars, x_vars>>

\* audio = downloadAudio(yt, f"{title}{uuid4().hex}", abr, dir)
MuxFetchAudio ==
    /\ m_pc = "audio"
    /\ \E outcome \in FetchOutcomes :
           LET d == downloadAudio(m_call.yt, m_title \o UuidHex(uuids), m_call.abr,
                                  m_call.dir, outcome)
           IN  /\ m_audio' = d.path
               /\ files' = IF d.written THEN files \cup {d.path} ELSE files
               /\ log' = log \o FetchEvents("fetch_audio", m_call.yt, d)
               /\ m_pc' = IF d.ret.ok THEN "ffmpeg" ELSE "raised"
               /\ m_result' = IF d.ret.ok THEN m_result ELSE d.ret
    /\ uuids' = uuids + 1
    /\ UNCHANGED <<m_call, m_title, m_video, m_output, m_status>>
    /\ UNCHANGED <<r_vars, c_vars, d_vars, x_vars>>

\* output = os.path.join(dir, f"{title}.mkv"); ffmpeg(video, audio, output):
\* os.system returns the exit status, which ffmpeg() drops. A failed run may
\* or may not leave a file at output.
MuxFfmpeg ==
    /\ m_pc = "ffmpeg"
    /\ \E status \in {0, 1}, created \in BOOLEAN :
           LET output == PathJoin(m_call.dir, m_title \o MkvExt)
           IN  /\ status = 0 => created
               /\ m_output' = output
               /\ m_status' = status
               /\ files' = IF created THEN files \cup {output} ELSE files
               /\ log' = Append(log, Event("ffmpeg", m_call.yt, output))
    /\ m_pc' = "rm_video"
    /\ UNCHANGED <<uuids, m_call, m_title, m_video, m_audio, m_result>>
    /\ UNCHANGED <<r_vars, c_vars, d_vars, x_vars>>

\* os.remove(path) followed by the return, whatever statement comes next.
OsRemoveThenReturn(pc, path, next) ==
    /\ m_pc = pc
    /\ log' = Append(log, Event("remove", m_call.yt, path))
    /\ \E refused \in BOOLEAN :
           IF path \in files /\ ~refused
           THEN /\ files' = files \ {path}
                /\ m_pc' = "return"
                /\ UNCHANGED m_result
           ELSE /\ m_pc' = "raised"
                /\ m_result' = Exc(IF path \in files THEN "PermissionError"
                                   ELSE "FileNotFoundError")
                /\ UNCHANGED files
    /\ UNCHANGED <<uuids, m_call, m_title, m_video, m_audio, m_output, m_status>>
    /\ UNCHANGED <<r_vars, c_vars, d_vars, x_vars>>

\* os.remove(path) at statement pc: removes the file and goes on to next, or
\* raises (the system refuses, or there is no file at path) and leaves the
\* files alone.
OsRemove(pc, path, next) ==
    /\ m_pc = pc
    /\ log' = Append(log, Event("remove", m_call.yt, path))
    /\ \E refused \in BOOLEAN :
           IF path \in files /\ ~refused
           THEN /\ files' = files \ {path}
                /\ m_pc' = next
                /\ UNCHANGED m_result
           ELSE /\ m_pc' = "raised"
                /\ m_result' = Exc(IF path \in files THEN "PermissionError"
                                   ELSE "FileNotFoundError")
                /\ UNCHANGED files
    /\ UNCHANGED <<uuids, m_call, m_title, m_video, m_audio, m_output, m_status>>
    /\ UNCHANGED <<r_vars, c_vars, d_vars, x_vars>>

\* os.remove(video)
MuxRemoveVideo == OsRemove("rm_video", m_video, "rm_audio")

\* os.remove(audio)
MuxRemoveAudio == OsRemove("rm_audio", m_audio, "return")

\* return output
MuxReturn ==
    /\ m_pc = "return"
    /\ m_pc' = "returned"
    /\ m_result' = Val(m_output)
    /\ UNCHANGED <<f_vars, m_call, m_title, m_video, m_audio, m_output, m_status>>
    /\ UNCHANGED <<r_vars, c_vars, d_vars, x_vars>>

MuxEnded == m_pc \in {"returned", "raised"}

\* --------------------------------------------------- downloadBoth specification

InitMux ==
    /\ S_Idle /\ U_Idle /\ G_Idle
    /\ R_Idle
    /\ C_Idle
    /\ F_Idle
    /\ D_Idle
    /\ m_pc = "video"
    /\ m_call \in [yt : DlVideos(1) \cup DlVideosTwice(1), title : {Title1, Title2}, res : DlRes, abr : DlAbr,
                   dir : {Dir1}]
    /\ M_Locals

NextMux ==
    \/ MuxFetchVideo
    \/ MuxFetchAudio
    \/ MuxFfmpeg
    \/ MuxRemoveVideo
    \/ MuxRemoveAudio
    \/ MuxReturn

SpecMux == InitMux /\ [][NextMux]_vars

\* ---------------------------------------- Thread.py and Dialog.py: playlist run

WindowTitle(text) == [text |-> text, k |-> 0, n |-> 0]

\* f"Downloading ({k} of {n})..."
DownloadingTitle(k, n) == [text |-> "Downloading (k of n)...", k |-> k, n |-> n]

Progress(k, n) == [op |-> "progress", vid |-> 0, path |-> <<>>, k |-> k, n |-> n]

\* The rows of the checked items from the last to the first.
getCheckedRowsDescending(items) ==
    LET checked == SelectSeq([k \in 1..Len(items) |-> k],
                             LAMBDA k : items[k].checked)
    IN  [k \in 1..Len(checked) |-> checked[Len(checked) + 1 - k] - 1]

\* getCheckedRows(): the zero-based rows of the checked items, ascending.
getCheckedRows(items) ==
    LET checked == SelectSeq([k \in 1..Len(items) |-> k],
                             LAMBDA k : items[k].checked)
    IN  [k \in 1..Len(checked) |-> checked[k] - 1]

\* The user checks or unchecks an item of the list; itemChanged enables the
\* Start button exactly when some item is checked.
ToggleItem ==
    /\ d_enabled /\ ~d_closed
    /\ \E row \in 1..Len(d_items) :
           /\ d_items' = [d_items EXCEPT ![row].checked = ~@]
           /\ d_startEnabled' = (Len(getCheckedRows(d_items')) > 0)
    /\ UNCHANGED <<attr, d_pl, d_quality, d_enabled, d_windowTitle, d_closed, d_timers,
                   w, q_finished>>
    /\ UNCHANGED <<r_vars, c_vars, f_vars, m_vars, x_vars>>

\* DownloadDialog.confirmDownload: the Start button is clicked. With
\* attr.confirmDownload the user is asked and anything but Yes returns; then
\* preDownload() disables the dialog and Thread.start starts the worker.
ConfirmDownload ==
    /\ d_enabled /\ ~d_closed /\ d_startEnabled
    /\ w.pc = "none"
    /\ \E ans \in {"Yes", "No"} :
           IF attr.confirmDownload /\ ans # "Yes"
           THEN UNCHANGED <<d_enabled, d_windowTitle, w>>
           ELSE /\ d_enabled' = FALSE
                /\ d_windowTitle' = WindowTitle("Downloading...")
                /\ w' = [w EXCEPT !.pc = "start"]
    /\ UNCHANGED <<attr, d_pl, d_items, d_quality, d_startEnabled, d_closed, d_timers,
                   q_finished>>
    /\ UNCHANGED <<r_vars, c_vars, f_vars, m_vars, x_vars>>

\* The worker after item i of rows: the next item, or the end of the loop.
AfterItem(wk) ==
    IF wk.i + 1 < Len(wk.rows) THEN [wk EXCEPT !.i = wk.i + 1, !.pc = "item"]
    ELSE [wk EXCEPT !.i = wk.i + 1, !.pc = "emit"]

\* The worker when run() raises exc: the rest of the lambda of Thread.start,
\* thread.finished.emit(), is skipped.
Abort(wk, exc) == [wk EXCEPT !.pc = "exit", !.exc = exc]

\* PlaylistDialog.download, up to the loop.
WorkerBegin ==
    /\ w.pc = "start"
    /\ LET rows == getCheckedRows(d_items)
       IN  w' = [w EXCEPT !.rows = rows, !.i = 0,
                          !.opt = d_quality.opt,
                          !.vidQuality = d_quality.vidQuality,
                          !.audQuality = d_quality.audQuality,
                          !.dir = Dir1,
                          !.pc = IF Len(rows) = 0 THEN "emit" ELSE "item"]
    /\ UNCHANGED <<attr, d_pl, d_items, d_quality, d_startEnabled, d_enabled,
                   d_windowTitle, d_closed, d_timers, q_finished>>
    /\ UNCHANGED <<r_vars, c_vars, f_vars, m_vars, x_vars>>

\* yt = self.pl.videos[i]: the video the loop takes for its i-th checked row
\* (i and row from 0).
VideoOfItem(videos, i, row) == videos[i + 1]

\* The head of the loop body: the window title, then yt, title, res and abr.
WorkerItem ==
    /\ w.pc = "item"
    /\ LET i == w.i
           row == w.rows[i + 1]
           yt == VideoOfItem(d_pl, i, row)
           title == d_items[row + 1].text
           res == getResolution(yt, w.vidQuality)
           abr == getBitrate(yt, w.audQuality)
       IN  /\ d_windowTitle' = DownloadingTitle(i + 1, Len(w.rows))
           /\ log' = log \o <<Progress(i + 1, Len(w.rows)), Event("getResolution", yt, <<>>)>>
                         \o (IF res.ok THEN <<Event("getBitrate", yt, <<>>)>> ELSE <<>>)
           /\ w' = IF ~res.ok THEN Abort([w EXCEPT !.yt = yt, !.title = title], res.exc)
                   ELSE IF ~abr.ok
                        THEN Abort([w EXCEPT !.yt = yt, !.title = title,
                                             !.res = res.val], abr.exc)
                   ELSE [w EXCEPT !.yt = yt, !.title = title, !.res = res.val,
                                  !.abr = abr.val, !.pc = "download"]
    /\ UNCHANGED <<files, uuids>>
    /\ UNCHANGED <<attr, d_pl, d_items, d_quality, d_startEnabled, d_enabled, d_closed,
                   d_timers, q_finished>>
    /\ UNCHANGED <<r_vars, c_vars, m_vars, x_vars>>

\* opt == Option.VideoWithAudio: MyTube.downloadBoth(yt, title, res, abr, dir) is called.
WorkerCallBoth ==
    /\ w.pc = "download"
    /\ w.opt = OptVideoWithAudio
    /\ m_pc' = "video"
    /\ m_call' = [yt |-> w.yt, title |-> w.title, res |-> w.res, abr |-> w.abr,
                  dir |-> w.dir]
    /\ m_title' = <<>>
    /\ m_video' = <<>>
    /\ m_audio' = <<>>
    /\ m_output' = <<>>
    /\ m_status' = 0
    /\ m_result' = NoResult
    /\ w' = [w EXCEPT !.pc = "mux"]
    /\ UNCHANGED <<attr, d_pl, d_items, d_quality, d_startEnabled, d_enabled,
                   d_windowTitle, d_closed, d_timers, q_finished>>
    /\ UNCHANGED <<r_vars, c_vars, f_vars, x_vars>>

\* downloadBoth has returned or raised.
WorkerBothEnded ==
    /\ w.pc = "mux"
    /\ MuxEnded
    /\ m_pc' = "idle"
    /\ w' = IF m_pc = "returned" THEN AfterItem(w) ELSE Abort(w, m_result.exc)
    /\ UNCHANGED <<m_call, m_title, m_video, m_audio, m_output, m_status, m_result>>
    /\ UNCHANGED <<attr, d_pl, d_items, d_quality, d_startEnabled, d_enabled,
                   d_windowTitle, d_closed, d_timers, q_finished>>
    /\ UNCHANGED <<r_vars, c_vars, f_vars, x_vars>>

\* opt == Option.AudioOnly: MyTube.downloadAudio(yt, title, abr, dir);
\* else: MyTube.downloadVideo(yt, title, res, dir).
WorkerDownloadSingle ==
    /\ w.pc = "download"
    /\ w.opt # OptVideoWithAudio
    /\ \E outcome \in FetchOutcomes :
           LET d == IF w.opt = OptAudioOnly
                    THEN downloadAudio(w.yt, w.title, w.abr, w.dir, outcome)
                    ELSE downloadVideo(w.yt, w.title, w.res, w.dir, outcome)
               op == IF w.opt = OptAudioOnly THEN "fetch_audio" ELSE "fetch_video"
           IN  /\ files' = IF d.written THEN files \cup {d.path} ELSE files
               /\ log' = log \o FetchEvents(op, w.yt, d)
               /\ w' = IF d.ret.ok THEN AfterItem(w) ELSE Abort(w, d.ret.exc)
    /\ UNCHANGED uuids
    /\ UNCHANGED <<attr, d_pl, d_items, d_quality, d_startEnabled, d_enabled,
                   d_windowTitle, d_closed, d_timers, q_finished>>
    /\ UNCHANGED <<r_vars, c_vars, m_vars, x_vars>>

\* Thread.start: run() has returned, the lambda goes on to thread.finished.emit();
\* the slot is queued to the thread of the dialog.
WorkerEmit ==
    /\ w.pc = "emit"
    /\ w' = [w EXCEPT !.pc = "exit"]
    /\ q_finished' = q_finished + 1
    /\ UNCHANGED <<attr, d_pl, d_items, d_quality, d_startEnabled, d_enabled,
                   d_windowTitle, d_closed, d_timers>>
    /\ UNCHANGED <<r_vars, c_vars, f_vars, m_vars, x_vars>>

\* The thread's run has returned, or has raised (the exception is printed):
\* QThread emits finished as the thread ends.
WorkerExit ==
    /\ w.pc = "exit"
    /\ w' = [w EXCEPT !.pc = "done"]
    /\ q_finished' = q_finished + 1
    /\ UNCHANGED <<attr, d_pl, d_items, d_quality, d_startEnabled, d_enabled,
                   d_windowTitle, d_closed, d_timers>>
    /\ UNCHANGED <<r_vars, c_vars, f_vars, m_vars, x_vars>>

\* PlaylistDialog.postDownload, run for one delivery of finished: on a closed
\* (deleted) dialog the slot raises; else DownloadDialog.postDownload closes the
\* dialog or enables it with 'Download Complete!', and a timer is set to reset
\* the title.
PostDownload ==
    /\ q_finished > 0
    /\ q_finished' = q_finished - 1
    /\ IF d_closed THEN UNCHANGED <<d_enabled, d_windowTitle, d_closed, d_timers>>
       ELSE IF attr.closeAfterDownload
            THEN /\ d_closed' = TRUE
                 /\ UNCHANGED <<d_enabled, d_windowTitle, d_timers>>
       ELSE /\ d_enabled' = TRUE
            /\ d_windowTitle' = WindowTitle("Download Complete!")
            /\ d_timers' = d_timers + 1
            /\ UNCHANGED d_closed
    /\ UNCHANGED <<attr, d_pl, d_items, d_quality, d_startEnabled, w>>
    /\ UNCHANGED <<r_vars, c_vars, f_vars, m_vars, x_vars>>

\* QTimer.singleShot(10000, self, ...): the title is reset after 10 s.
TitleReset ==
    /\ d_timers > 0
    /\ ~d_closed
    /\ d_timers' = d_timers - 1
    /\ d_windowTitle' = WindowTitle("Download Playlist")
    /\ UNCHANGED <<attr, d_pl, d_items, d_quality, d_startEnabled, d_enabled, d_closed,
                   w, q_finished>>
    /\ UNCHANGED <<r_vars, c_vars, f_vars, m_vars, x_vars>>

\* ------------------------------------------------- playlist run specification

\* The titles of the videos of a playlist: the first two share one.
TitleOf(id) == IF id % 3 = 0 THEN Title2 ELSE Title1

\* The videos of a playlist: with streams of both kinds, of one kind, of none.
PlVideos(id) ==
    {YouTube(id, TitleOf(id), vs, as) :
        vs \in {{}, 1..MaxStreams}, as \in {{}, 1..MaxStreams}}

\* pl.videos of the playlists with n videos.
Playlists(n) == {p \in [1..n -> UNION {PlVideos(id) : id \in 1..n}] :
                     \A id \in 1..n : p[id] \in PlVideos(id)}

\* The dialog after fetch() and postFetch(): every video listed under its title
\* and checked, the qualities as the user has set them.
InitPlaylist ==
    /\ S_Idle /\ U_Idle /\ G_Idle
    /\ R_Idle
    /\ C_Idle
    /\ F_Idle
    /\ M_Idle
    /\ attr \in [confirmDownload : BOOLEAN, closeAfterDownload : BOOLEAN]
    /\ \E n \in 1..MaxVideos : d_pl \in Playlists(n)
    /\ d_items = [k \in 1..Len(d_pl) |-> [text |-> d_pl[k].title, checked |-> TRUE]]
    /\ d_quality \in [opt : {OPTIONS[k] : k \in 1..Len(OPTIONS)},
                      vidQuality : {QUALITIES[k] : k \in 1..Len(QUALITIES)},
                      audQuality : {QUALITIES[k] : k \in 1..Len(QUALITIES)}]
    /\ d_startEnabled = TRUE
    /\ d_enabled = TRUE
    /\ d_windowTitle = WindowTitle("Download Playlist")
    /\ d_closed = FALSE
    /\ d_timers = 0
    /\ w = NoWorker
    /\ q_finished = 0

NextPlaylist ==
    \/ ToggleItem
    \/ ConfirmDownload
    \/ WorkerBegin
    \/ WorkerItem
    \/ WorkerCallBoth
    \/ MuxFetchVideo
    \/ MuxFetchAudio
    \/ MuxFfmpeg
    \/ MuxRemoveVideo
    \/ MuxRemoveAudio
    \/ MuxReturn
    \/ WorkerBothEnded
    \/ WorkerDownloadSingle
    \/ WorkerEmit
    \/ WorkerExit
    \/ PostDownload
    \/ TitleReset

SpecPlaylist == InitPlaylist /\ [][NextPlaylist]_vars

\* ------------------------------------------------- sanitiser specification

\* Length of the longest title given to filterTitle.
MaxTitle == 2

\* The characters of a title: those a file name may not hold, the underscore and
\* a letter.
TitleChars == {"<", ">", ":", "\"", "/", "\\", "|", "?", "*", "_", "a"}

Titles == UNION {[1..n -> TitleChars] : n \in 0..MaxTitle}

InitSanitize ==
    /\ R_Idle /\ C_Idle /\ F_Idle /\ M_Idle /\ D_Idle /\ U_Idle /\ G_Idle
    /\ s_title \in Titles
    /\ s_safe = NoResult
    /\ s_again = NoResult

\* filterTitle(title), as downloadBoth and downloadStream call it.
SanitizeOnce ==
    /\ s_safe = NoResult
    /\ s_safe' = Val(filterTitle(s_title))
    /\ UNCHANGED <<s_title, s_again, u_text, u_label, u_next, u_checks, u_dialog,
                   g_threads>>
    /\ UNCHANGED <<r_vars, c_vars, f_vars, m_vars, d_vars>>

\* filterTitle of a title that filterTitle returned: downloadBoth hands its
\* sanitised title on to downloadStream, which calls filterTitle again.
SanitizeAgain ==
    /\ s_safe # NoResult
    /\ s_again = NoResult
    /\ s_again' = Val(filterTitle(s_safe.val))
    /\ UNCHANGED <<s_title, s_safe, u_text, u_label, u_next, u_checks, u_dialog,
                   g_threads>>
    /\ UNCHANGED <<r_vars, c_vars, f_vars, m_vars, d_vars>>

NextSanitize == SanitizeOnce \/ SanitizeAgain

SpecSanitize == InitSanitize /\ [][NextSanitize]_vars

\* ----------------------------------------------- main window specification

\* Number of times the text of urlField is changed.
MaxEdits == 2

UrlBad == <<"x">>

\* What the user may enter in urlField.
Texts == {<<>>, UrlBad, UrlWatch, UrlWatchInList, UrlPlaylist}

\* The remote video behind YouTube(url): the video id follows "v=".
VideoAt(url) == [AVideo EXCEPT !.regex_ok = Contains(url, <<"v", "=">>)]

\* The remote playlist behind Playlist(url): the playlist id follows "list=".
PlaylistAt(url) ==
    [APlaylist EXCEPT !.title_exc = IF Contains(url, ListWord) THEN "none"
                                    ELSE "KeyError"]

\* urlField.textChanged: resetStatus(), then Thread.start(checkUrl).
EditUrl ==
    /\ Len(u_checks) < MaxEdits
    /\ \E text \in Texts \ {u_text} : u_text' = text
    /\ u_label' = [text |-> "", about |-> <<>>]
    /\ u_next' = FALSE
    /\ u_checks' = Append(u_checks, [pc |-> "start", url |-> <<>>])
    /\ UNCHANGED <<s_title, s_safe, s_again, u_dialog, g_threads>>
    /\ UNCHANGED <<r_vars, c_vars, f_vars, m_vars, d_vars>>

\* checkUrl on its worker: url = self.urlField.text(), and the return when
\* it is empty.
CheckRead ==
    /\ \E k \in 1..Len(u_checks) :
           /\ u_checks[k].pc = "start"
           /\ u_checks' = [u_checks EXCEPT ![k] =
                              [pc |-> IF u_text = <<>> THEN "done" ELSE "check",
                               url |-> u_text]]
    /\ UNCHANGED <<s_title, s_safe, s_again, u_text, u_label, u_next, u_dialog,
                   g_threads>>
    /\ UNCHANGED <<r_vars, c_vars, f_vars, m_vars, d_vars>>

\* checkUrl on its worker: MyTube.checkUrl(url) over the network; a message is
\* shown in infoLabel, an exception ends the worker.
CheckValidate ==
    /\ \E k \in 1..Len(u_checks) :
           LET url == u_checks[k].url
               error == checkUrl(url, VideoAt(url), PlaylistAt(url))
           IN  /\ u_checks[k].pc = "check"
               /\ IF error = Val(None)
                  THEN /\ u_checks' = [u_checks EXCEPT ![k].pc = "title"]
                       /\ UNCHANGED u_label
                  ELSE /\ u_checks' = [u_checks EXCEPT ![k].pc = "done"]
                       /\ u_label' = IF error.ok THEN [text |-> error.val, about |-> url]
                                     ELSE u_label
    /\ UNCHANGED <<s_title, s_safe, s_again, u_text, u_next, u_dialog, g_threads>>
    /\ UNCHANGED <<r_vars, c_vars, f_vars, m_vars, d_vars>>

\* checkUrl on its worker: the title is fetched and shown, Next is enabled.
CheckShow ==
    /\ \E k \in 1..Len(u_checks) :
           /\ u_checks[k].pc = "title"
           /\ u_checks' = [u_checks EXCEPT ![k].pc = "done"]
           /\ u_label' = [text |-> IF isUrlPlaylist(u_checks[k].url)
                                   THEN "Playlist: title" ELSE "Video: title",
                          about |-> u_checks[k].url]
    /\ u_next' = TRUE
    /\ UNCHANGED <<s_title, s_safe, s_again, u_text, u_dialog, g_threads>>
    /\ UNCHANGED <<r_vars, c_vars, f_vars, m_vars, d_vars>>

\* MainWindow.next, on a click of the enabled Next button: the dialog is made
\* for the text of urlField (VideoDialog raises where YouTube(url) does), shown,
\* and dialog.startFetch() is called, which no class of Dialog.py defines.
NextClicked ==
    /\ u_next
    /\ u_dialog.kind = "none" /\ u_dialog.exc = "none"
    /\ \E ans \in {"Yes", "No"} :
           LET url == u_text
               inList == checkPlaylistUrl(PlaylistAt(extractPlaylistUrl(url))) = Val(None)
               kind == IF isUrlPlaylist(url) \/ (inList /\ ans = "Yes")
                       THEN "Playlist" ELSE "Video"
           IN  u_dialog' =
                   IF kind = "Video" /\ ~VideoAt(url).regex_ok
                   THEN [u_dialog EXCEPT !.exc = "RegexMatchError"]
                   ELSE [kind |-> kind,
                         url |-> IF isUrlPlaylist(url) \/ kind = "Video" THEN url
                                 ELSE extractPlaylistUrl(url),
                         shown |-> TRUE, fetch |-> FALSE, exc |-> "AttributeError"]
    /\ UNCHANGED <<s_title, s_safe, s_again, u_text, u_label, u_next, u_checks,
                   g_threads>>
    /\ UNCHANGED <<r_vars, c_vars, f_vars, m_vars, d_vars>>

InitWindow ==
    /\ R_Idle /\ C_Idle /\ F_Idle /\ M_Idle /\ D_Idle /\ S_Idle /\ G_Idle
    /\ U_Idle

NextWindow == EditUrl \/ CheckRead \/ CheckValidate \/ CheckShow \/ NextClicked

SpecWindow == InitWindow /\ [][NextWindow]_vars

\* ------------------------------------------- repeated download specification

\* Number of times Thread.start is called for the downloads of one dialog.
MaxStarts == 3

\* DownloadDialog.confirmDownload on a click of Start, as ConfirmDownload, with
\* a thread of its own for every call of Thread.start.
DialogConfirmDownload ==
    /\ d_enabled /\ ~d_closed /\ d_startEnabled
    /\ Len(g_threads) < MaxStarts
    /\ \E ans \in {"Yes", "No"} :
           IF attr.confirmDownload /\ ans # "Yes"
           THEN UNCHANGED <<d_enabled, d_windowTitle, g_threads>>
           ELSE /\ d_enabled' = FALSE
                /\ d_windowTitle' = WindowTitle("Downloading...")
                /\ g_threads' = Append(g_threads, "run")
    /\ UNCHANGED <<attr, d_pl, d_items, d_quality, d_startEnabled, d_closed, d_timers,
                   w, q_finished>>
    /\ UNCHANGED <<s_title, s_safe, s_again, u_text, u_label, u_next, u_checks,
                   u_dialog>>
    /\ UNCHANGED <<r_vars, c_vars, f_vars, m_vars>>

\* download() of a thread ends: it returns, and the lambda of Thread.start goes
\* on to emit finished, or it raises, and the lambda is left.
ThreadRun ==
    /\ \E k \in 1..Len(g_threads), raises \in BOOLEAN :
           /\ g_threads[k] = "run"
           /\ g_threads' = [g_threads EXCEPT ![k] = IF raises THEN "exit" ELSE "emit"]
    /\ UNCHANGED <<s_title, s_safe, s_again, u_text, u_label, u_next, u_checks,
                   u_dialog>>
    /\ UNCHANGED <<r_vars, c_vars, f_vars, m_vars, d_vars>>

\* Thread.start: thread.finished.emit() after run() has returned.
ThreadEmit ==
    /\ \E k \in 1..Len(g_threads) :
           /\ g_threads[k] = "emit"
           /\ g_threads' = [g_threads EXCEPT ![k] = "exit"]
    /\ q_finished' = q_finished + 1
    /\ UNCHANGED <<attr, d_pl, d_items, d_quality, d_startEnabled, d_enabled,
                   d_windowTitle, d_closed, d_timers, w>>
    /\ UNCHANGED <<s_title, s_safe, s_again, u_text, u_label, u_next, u_checks,
                   u_dialog>>
    /\ UNCHANGED <<r_vars, c_vars, f_vars, m_vars>>

\* The thread ends: QThread emits finished.
ThreadExit ==
    /\ \E k \in 1..Len(g_threads) :
           /\ g_threads[k] = "exit"
           /\ g_threads' = [g_threads EXCEPT ![k] = "done"]
    /\ q_finished' = q_finished + 1
    /\ UNCHANGED <<attr, d_pl, d_items, d_quality, d_startEnabled, d_enabled,
                   d_windowTitle, d_closed, d_timers, w>>
    /\ UNCHANGED <<s_title, s_safe, s_again, u_text, u_label, u_next, u_checks,
                   u_dialog>>
    /\ UNCHANGED <<r_vars, c_vars, f_vars, m_vars>>

\* A playlist dialog after fetch() and postFetch(), its one video checked.
InitDialog ==
    /\ R_Idle /\ C_Idle /\ F_Idle /\ M_Idle /\ S_Idle /\ U_Idle /\ G_Idle
    /\ attr \in [confirmDownload : BOOLEAN, closeAfterDownload : BOOLEAN]
    /\ d_pl = <<YouTube(1, Title1, 1..MaxStreams, 1..MaxStreams)>>
    /\ d_items = <<[text |-> Title1, checked |-> TRUE]>>
    /\ d_quality = [opt |-> OptVideoWithAudio, vidQuality |-> Highest,
                    audQuality |-> Highest]
    /\ d_startEnabled = TRUE
    /\ d_enabled = TRUE
    /\ d_windowTitle = WindowTitle("Download Playlist")
    /\ d_closed = FALSE
    /\ d_timers = 0
    /\ w = NoWorker
    /\ q_finished = 0

NextDialog ==
    \/ DialogConfirmDownload
    \/ ThreadRun
    \/ ThreadEmit
    \/ ThreadExit
    \/ PostDownload
    \/ TitleReset

SpecDialog == InitDialog /\ [][NextDialog]_vars

\* ------------------------------------------------------------------ claims

\* C1: after any call to downloadBoth, whether it returned or failed at the
\* video fetch, the audio fetch, the multiplexer or a deletion, no file exists
\* at the path generated for the temporary video or for the temporary audio.
C1_NoTemporariesLeft ==
    MuxEnded => (m_video \notin files /\ m_audio \notin files)

\* C5: when ffmpeg exits with a non-zero status, downloadBoth fails with a
\* MuxError and does not return the output path.
C5_MuxFailureRaises ==
    (MuxEnded /\ m_status # 0) => (m_pc = "raised" /\ m_result = Exc("MuxError"))

NamedLevels == {Highest, Medium, Lowest}

\* C2: for every descending-sorted quality list L of length n >= 1, resolving
\* Medium returns L[n // 2] (zero-based): the exact middle for odd n, the
\* upper-middle element for even n.
C2_MediumIsMiddle ==
    /\ (r_res # NoResult /\ r_quality[1] = Medium /\ Len(allResolutions(r_yt)) >= 1)
           => LET L == allResolutions(r_yt)
              IN  r_res = Val(L[(Len(L) \div 2) + 1])
    /\ (r_abr # NoResult /\ r_quality[2] = Medium /\ Len(allBitrates(r_yt)) >= 1)
           => LET L == allBitrates(r_yt)
              IN  r_abr = Val(L[(Len(L) \div 2) + 1])

\* C3: a preference that is not one of Highest, Medium, Lowest is returned
\* unchanged, whatever qualities the video offers (also when it offers none, or
\* not that one).
C3_LiteralUnchanged ==
    /\ (r_res # NoResult /\ r_quality[1] \notin NamedLevels) => r_res = Val(r_quality[1])
    /\ (r_abr # NoResult /\ r_quality[2] \notin NamedLevels) => r_abr = Val(r_quality[2])

\* A literal the video does not offer has been resolved, for both tracks.
C3_Witness ==
    /\ r_quality = <<Res4320, Abr999>>
    /\ Len(allResolutions(r_yt)) >= 2
    /\ r_res = Val(Res4320)
    /\ r_abr = Val(Abr999)

\* The failure kinds of a remote video in the priority the diagnostics are
\* checked in, each with its diagnostic.
C7_Priority(v) ==
    << <<~v.regex_ok, MsgInvalidUrl>>,
       <<v.age_restricted, MsgAgeRestricted>>,
       <<v.availability = "LiveStreamError", MsgLiveStream>>,
       <<v.availability = "VideoPrivate", MsgPrivate>>,
       <<v.availability = "RecordingUnavailable", MsgRecordingUnavailable>>,
       <<v.availability = "MembersOnly", MsgMembersOnly>>,
       <<v.availability = "VideoRegionBlocked", MsgRegionBlocked>>,
       <<v.availability = "VideoUnavailable", MsgUnavailable>> >>

C7_Applying(v) == {k \in 1..Len(C7_Priority(v)) : C7_Priority(v)[k][1]}

\* C7: video validation returns, for a URL to which at least one named failure
\* kind applies (and whose page could be loaded), exactly the diagnostic of the
\* first applying kind in the priority malformed, age-restricted, live-stream,
\* private, recording-unavailable, members-only, region-blocked, unavailable;
\* age-restricted wins over a failing availability check.
C7_DiagnosticByPriority ==
    (/\ c_result # NoResult
     /\ ~isUrlPlaylist(c_url)
     /\ c_video.regex_ok => c_video.fetch_exc = "none"
     /\ C7_Applying(c_video) # {})
        => LET first == CHOOSE k \in C7_Applying(c_video) :
                            \A o \in C7_Applying(c_video) : k <= o
           IN  c_result = Val(C7_Priority(c_video)[first][2])

\* An age-restricted video whose availability check would fail too has been
\* reported as age-restricted.
C7_Witness ==
    /\ ~isUrlPlaylist(c_url)
    /\ c_video.regex_ok
    /\ c_video.fetch_exc = "none"
    /\ c_video.age_restricted
    /\ c_video.availability = "VideoPrivate"
    /\ c_result = Val(MsgAgeRestricted)

\* C8: video validation fails closed: whenever constructing the handle, reading
\* the age restriction or checking availability raises, a diagnostic is
\* returned; the failure never escapes and the answer is never 'no error'.
C8_FailsClosed ==
    (/\ c_result # NoResult
     /\ ~isUrlPlaylist(c_url)
     /\ \/ ~c_video.regex_ok
        \/ c_video.fetch_exc # "none"
        \/ c_video.age_restricted
        \/ c_video.availability # "none")
        => (c_result.ok /\ c_result.val # None)

\* C9: playlist validation returns the EmptyPlaylist diagnostic for every
\* playlist (that can be looked up) whose video count is zero, whatever its title.
C9_EmptyPlaylist ==
    (/\ c_result # NoResult
     /\ isUrlPlaylist(c_url)
     /\ c_playlist.title_exc = "none"
     /\ c_playlist.videos_exc = "none"
     /\ c_playlist.nvideos = 0)
        => c_result = Val(MsgEmptyPlaylist)

\* C10: every failure of a lookup that playlist validation performs, of
\* whatever error kind, is answered with the InvalidPlaylist diagnostic; none
\* escapes as an exception or yields 'no error'.
C10_InvalidPlaylist ==
    (/\ c_result # NoResult
     /\ isUrlPlaylist(c_url)
     /\ \/ c_playlist.title_exc # "none"
        \/ c_playlist.title # <<>> /\ c_playlist.videos_exc # "none")
        => c_result = Val(MsgInvalidPlaylist)

\* C11: for every non-empty descending-sorted quality list L of a video,
\* resolving Highest returns L[0] and resolving Lowest returns the last element
\* of L, for resolutions and for bitrates.
C11_HighestFirstLowestLast ==
    LET res == allResolutions(r_yt)
        abr == allBitrates(r_yt)
    IN  /\ (r_res # NoResult /\ r_quality[1] = Highest /\ Len(res) >= 1)
                => r_res = Val(res[1])
        /\ (r_res # NoResult /\ r_quality[1] = Lowest /\ Len(res) >= 1)
                => r_res = Val(res[Len(res)])
        /\ (r_abr # NoResult /\ r_quality[2] = Highest /\ Len(abr) >= 1)
                => r_abr = Val(abr[1])
        /\ (r_abr # NoResult /\ r_quality[2] = Lowest /\ Len(abr) >= 1)
                => r_abr = Val(abr[Len(abr)])

\* Highest of three resolutions and Lowest of three bitrates have been resolved.
C11_Witness ==
    /\ r_quality = <<Highest, Lowest>>
    /\ allResolutions(r_yt) = <<ResCatalogue[2], ResCatalogue[3], ResCatalogue[1]>>
    /\ allBitrates(r_yt) = <<AbrCatalogue[3], AbrCatalogue[1], AbrCatalogue[2]>>
    /\ r_res = Val(ResCatalogue[2])
    /\ r_abr = Val(AbrCatalogue[2])

\* C12 as stated: resolving any preference against an empty list of available
\* qualities is an error, no quality value is returned.
C12_EmptyIsError ==
    /\ (r_res # NoResult /\ allResolutions(r_yt) = <<>>) => ~r_res.ok
    /\ (r_abr # NoResult /\ allBitrates(r_yt) = <<>>) => ~r_abr.ok

\* C12 amended: resolving Highest, Medium or Lowest against an empty list of
\* available qualities raises IndexError, no quality value is returned (a
\* literal preference is returned unchanged even then).
C12_EmptyIsErrorForNamedLevel ==
    /\ (r_res # NoResult /\ r_quality[1] \in NamedLevels /\ allResolutions(r_yt) = <<>>)
            => r_res = Exc("IndexError")
    /\ (r_abr # NoResult /\ r_quality[2] \in NamedLevels /\ allBitrates(r_yt) = <<>>)
            => r_abr = Exc("IndexError")

\* Medium and Lowest have been resolved for a video with no streams at all.
C12_Witness ==
    /\ r_yt.streams = <<>>
    /\ r_quality = <<Medium, Lowest>>
    /\ r_res = Exc("IndexError")
    /\ r_abr = Exc("IndexError")

\* The integer each label of the catalogues stands for.
C13_ResValue == <<480, 1080, 720, 360, 144, 240>>

C13_AbrValue == <<128, 70, 160, 50, 48, 256>>

C13_ValueOf(label, catalogue, values) ==
    values[CHOOSE k \in 1..Len(catalogue) : catalogue[k] = label]

\* L holds each label of the streams exactly once, in strictly descending
\* order of the integers the labels stand for.
C13_Enumerates(L, labels, catalogue, values) ==
    /\ {L[k] : k \in 1..Len(L)} = labels
    /\ \A j, k \in 1..Len(L) : j # k => L[j] # L[k]
    /\ \A k \in 1..(Len(L) - 1) :
           C13_ValueOf(L[k], catalogue, values) > C13_ValueOf(L[k + 1], catalogue, values)

\* C13: the enumeration of a video's resolutions (bitrates) returns each
\* distinct label of its video-only (audio-only) streams exactly once, ordered
\* strictly descending by the integer left after stripping 'p' ('kbps'):
\* numerically, not lexicographically.
C13_SortedDistinct ==
    r_allRes # NoResult
        => LET video == FilterVideo(r_yt.streams)
               audio == FilterAudio(r_yt.streams)
           IN  /\ C13_Enumerates(r_allRes.val,
                                 {video[k].resolution : k \in 1..Len(video)},
                                 ResCatalogue, C13_ResValue)
               /\ C13_Enumerates(r_allAbr.val, {audio[k].abr : k \in 1..Len(audio)},
                                 AbrCatalogue, C13_AbrValue)

\* A video listing 480p, 1080p, 720p and 128, 70, 160 kbps, each twice, has
\* been enumerated.
C13_Witness ==
    /\ Len(FilterVideo(r_yt.streams)) = 6
    /\ Len(FilterAudio(r_yt.streams)) = 6
    /\ r_allRes = Val(<<ResCatalogue[2], ResCatalogue[3], ResCatalogue[1]>>)
    /\ r_allAbr = Val(<<AbrCatalogue[3], AbrCatalogue[1], AbrCatalogue[2]>>)

\* The positions in yt.streams of the descriptors of the kind and the quality
\* label looked up.
C14_Matches(streams, video, label) ==
    {k \in 1..Len(streams) :
        IF video THEN streams[k].only_video /\ streams[k].resolution = label
        ELSE streams[k].only_audio /\ streams[k].abr = label}

\* The lookup of a stream, followed by log, ended as the claim says: with no
\* match IndexError and nothing fetched, else the fetch of the first match.
C14_Lookup(streams, video, label, fetched) ==
    LET hits == C14_Matches(streams, video, label)
        first == CHOOSE k \in hits : \A o \in hits : k <= o
    IN  IF hits = {}
        THEN /\ m_pc = "raised"
             /\ m_result = Exc("IndexError")
             /\ fetched = <<>>
        ELSE /\ Len(fetched) = 1
             /\ getFileExt(fetched[1].path) = getFileExt(streams[first].default_filename)

\* C14: the stream lookup of downloadVideo / downloadAudio takes the first
\* descriptor whose track kind and quality label both match, and fails
\* (IndexError) without fetching anything when no descriptor matches, e.g. for
\* a literal quality the video does not offer.
C14_FirstMatchOrNoFetch ==
    /\ uuids >= 1
           => C14_Lookup(m_call.yt.streams, TRUE, m_call.res,
                         SelectSeq(log, LAMBDA e : e.op = "fetch_video"))
    /\ uuids >= 2
           => C14_Lookup(m_call.yt.streams, FALSE, m_call.abr,
                         SelectSeq(log, LAMBDA e : e.op = "fetch_audio"))

\* The video stream was taken from two matching descriptors (the mp4 one, listed
\* first), and the lookup of a bitrate the video does not offer has failed.
C14_Witness ==
    /\ Cardinality(C14_Matches(m_call.yt.streams, TRUE, m_call.res)) = 2
    /\ m_call.abr = Abr999
    /\ uuids = 2
    /\ Len(log) = 1
    /\ getFileExt(log[1].path) = getFileExt(Mp4Name)
    /\ m_result = Exc("IndexError")

C15_IsFetch(e) == e.op \in {"fetch_video", "fetch_audio"}

C16_FetchPathsUnique ==
    \A j, k \in 1..Len(log) :
        (j # k /\ C15_IsFetch(log[j]) /\ C15_IsFetch(log[k])) => log[j].path # log[k].path

\* C17: a fetch is never retried and its failure aborts downloadBoth: the fetch
\* capability is called at most once for the video and at most once for the
\* audio; after a failed video fetch nothing else is called, after a failed
\* audio fetch the multiplexer is not called, and either way downloadBoth
\* raises, returning no output path.
C17_NoRetryAbort ==
    /\ Len(SelectSeq(log, LAMBDA e : e.op = "fetch_video")) <= 1
    /\ Len(SelectSeq(log, LAMBDA e : e.op = "fetch_audio")) <= 1
    /\ (m_result = Exc("URLError") /\ m_audio = <<>>)
           => (m_pc = "raised" /\ Len(log) = 1 /\ log[1].op = "fetch_video")
    /\ (m_result = Exc("URLError") /\ m_audio # <<>>)
           => (m_pc = "raised" /\ Len(log) = 2 /\ log[1].op = "fetch_video"
               /\ log[2].op = "fetch_audio")

\* The video fetch has failed after writing part of its file.
C17_Witness ==
    /\ m_result = Exc("URLError")
    /\ m_audio = <<>>
    /\ m_video \in files
    /\ log = <<Event("fetch_video", m_call.yt, m_video)>>

\* The zero-based positions at which 'list' occurs in url.
C18_Occurrences(url) ==
    {k \in 0..Len(url) : k + 4 <= Len(url) /\ url[k + 1] = "l" /\ url[k + 2] = "i"
                             /\ url[k + 3] = "s" /\ url[k + 4] = "t"}

\* C18: extractPlaylistUrl returns, for every URL containing 'list',
\* 'https://www.youtube.com/playlist?' followed by the slice of the URL from
\* the first occurrence of 'list' to its end, and the URL unchanged for every
\* URL that does not contain 'list'.
C18_ExtractPlaylistUrl ==
    c_extracted # NoResult
        => LET at == C18_Occurrences(c_url)
               first == CHOOSE k \in at : \A o \in at : k <= o
           IN  IF at = {} THEN c_extracted = Val(c_url)
               ELSE /\ c_extracted.ok
                    /\ Len(c_extracted.val) >= Len(PlaylistUrlPrefix)
                    /\ SubSeq(c_extracted.val, 1, Len(PlaylistUrlPrefix)) = PlaylistUrlPrefix
                    /\ SubSeq(c_extracted.val, Len(PlaylistUrlPrefix) + 1,
                              Len(c_extracted.val))
                           = [k \in 1..(Len(c_url) - first) |-> c_url[first + k]]

\* The playlist URL of a URL in which 'list' occurs twice has been extracted.
C18_Witness ==
    /\ Cardinality(C18_Occurrences(c_url)) = 2
    /\ ~isUrlPlaylist(c_url)
    /\ c_extracted
           = Val(PlaylistUrlPrefix \o <<"l", "i", "s", "t", "=", "Y", "&", "l", "i", "s", "t",
                                        "e", "n">>)

\* The number of events of kind op in the log.
C19_Count(op) == Len(SelectSeq(log, LAMBDA e : e.op = op))

\* C19: a playlist run takes the checked rows in ascending row order; for the
\* k-th of total items it emits the progress (k, total) before any resolve or
\* fetch for that item (the first call for an item, getResolution, and no other
\* call, comes directly after a progress), and the progress index goes 1, 2,
\* ..., total without skipping or repeating (as far as the run gets).
C19_ProgressInOrder ==
    LET prog == SelectSeq(log, LAMBDA e : e.op = "progress")
    IN  /\ \A j, k \in 1..Len(w.rows) : j < k => w.rows[j] < w.rows[k]
        /\ w.pc \in {"item", "download", "mux"} => w.rows = getCheckedRows(d_items)
        /\ w.pc \in {"download", "mux"} => w.title = d_items[w.rows[w.i + 1] + 1].text
        /\ Len(prog) <= Len(w.rows)
        /\ \A k \in 1..Len(prog) : prog[k].k = k /\ prog[k].n = Len(w.rows)
        /\ \A p \in 1..Len(log) :
               IF p = 1 THEN log[p].op = "progress"
               ELSE (log[p].op = "getResolution") <=> (log[p - 1].op = "progress")
        /\ C19_Count("getResolution") = Len(prog)
        /\ (w.pc \in {"emit", "exit", "done"} /\ w.exc = "none")
               => Len(prog) = Len(w.rows)

\* A run over two checked rows has ended without a failure.
C19_Witness ==
    /\ w.pc = "done"
    /\ w.exc = "none"
    /\ w.rows = <<0, 1>>
    /\ SelectSeq(log, LAMBDA e : e.op = "progress") = <<Progress(1, 2), Progress(2, 2)>>
    /\ C19_Count("fetch_video") = 2

\* C20: when a download fails, the dialog ends (once the thread's signals are
\* handled) enabled and not closed, and does not show 'Download Complete!'.
C20_FailureLeavesDialogEnabled ==
    (w.exc # "none" /\ w.pc = "done" /\ q_finished = 0)
        => (d_enabled /\ ~d_closed /\ d_windowTitle # WindowTitle("Download Complete!"))

\* C21: a dialog has at most one download in flight: while the download() of a
\* thread is running the dialog is disabled (or closed), and no second thread
\* runs download() at the same time.
C21_OneOperationInFlight ==
    LET running == {k \in 1..Len(g_threads) : g_threads[k] = "run"}
    IN  /\ Cardinality(running) <= 1
        /\ running # {} => (~d_enabled \/ d_closed)

\* C22: sanitising a title that has been sanitised gives the same title.
C22_Idempotent == s_again # NoResult => s_again = s_safe

C22_Witness == s_title = <<":", ":">> /\ s_again = Val(<<"_", "_">>)

C23_Forbidden == {"<", ">", ":", "\"", "/", "\\", "|", "?", "*"}

\* C23: filterTitle returns, and what it returns has the length of the title,
\* an underscore wherever the title has one of < > : " / \ | ? * and the
\* character of the title everywhere else; so it holds none of the nine.
C23_NoForbiddenCharacter ==
    s_safe # NoResult =>
        /\ s_safe.ok
        /\ Len(s_safe.val) = Len(s_title)
        /\ \A k \in 1..Len(s_title) :
               /\ s_safe.val[k] \notin C23_Forbidden
               /\ s_safe.val[k] = IF s_title[k] \in C23_Forbidden THEN "_"
                                  ELSE s_title[k]

C23_Witness == s_title = <<"*", "a">> /\ s_safe = Val(<<"_", "a">>)

C24_HasPlaylistWord(url) ==
    \E k \in 0..(Len(url) - 8) :
        <<url[k + 1], url[k + 2], url[k + 3], url[k + 4], url[k + 5], url[k + 6],
          url[k + 7], url[k + 8]>> = <<"p", "l", "a", "y", "l", "i", "s", "t">>

\* C24: the check of a URL is the playlist check exactly when the URL holds
\* 'playlist', and the video check otherwise.
C24_ClassifyAndDispatch ==
    c_result # NoResult =>
        c_result = IF C24_HasPlaylistWord(c_url) THEN checkPlaylistUrl(c_playlist)
                   ELSE checkVideoUrl(c_video)

C24_Witness == c_url = UrlWatchInList /\ c_result = Val(MsgPrivate)

C25_Steps == <<"fetch_video", "fetch_audio", "ffmpeg", "remove", "remove">>

\* C25: the steps of downloadBoth come in one order: the video fetch, the audio
\* fetch, ffmpeg, the removal of the video temporary, the removal of the audio
\* temporary; it returns only after all five, both temporaries removed.
C25_StrictOrder ==
    /\ Len(log) <= Len(C25_Steps)
    /\ \A k \in 1..Len(log) : log[k].op = C25_Steps[k]
    /\ Len(log) >= 4 => log[4].path = m_video
    /\ Len(log) >= 5 => log[5].path = m_audio
    /\ m_pc \in {"return", "returned"} =>
           Len(log) = 5 /\ m_video \notin files /\ m_audio \notin files

C25_Witness == m_pc = "returned" /\ Len(log) = 5 /\ m_result.ok

\* C26: no two workers of checkUrl are at the same time between their read of
\* the URL field and their write of the status label and the Next button.
C26_OneCheckAtATime ==
    Cardinality({k \in 1..Len(u_checks) : u_checks[k].pc \in {"check", "title"}}) <= 1

\* C27: whenever Next is enabled, the text of the URL field is not empty, its
\* validation gives no diagnostic, and the status label is about that text.
C27_NextOnlyForValidText ==
    u_next =>
        /\ u_text # <<>>
        /\ checkUrl(u_text, VideoAt(u_text), PlaylistAt(u_text)) = Val(None)
        /\ u_label.about = u_text

\* C28: for a named level and a list of at least one element, the resolution of
\* the level returns an element of the list.
C28_NamedLevelInRange ==
    /\ (r_res # NoResult /\ r_quality[1] \in NamedLevels
            /\ Len(allResolutions(r_yt)) >= 1) =>
           (r_res.ok /\ InSeq(r_res.val, allResolutions(r_yt)))
    /\ (r_abr # NoResult /\ r_quality[2] \in NamedLevels
            /\ Len(allBitrates(r_yt)) >= 1) =>
           (r_abr.ok /\ InSeq(r_abr.val, allBitrates(r_yt)))

\* C29: a single-track download of a playlist item fails with an index error
\* only when the quality of its own track does not resolve.
C29_SingleTrackIndependent ==
    w.exc = "IndexError" =>
        /\ w.opt = OptAudioOnly => ~getBitrate(w.yt, w.audQuality).ok
        /\ w.opt = OptVideoOnly => ~getResolution(w.yt, w.vidQuality).ok

\* C30: a dialog that Next has shown has had its fetch started.
C30_FetchStarted == u_dialog.shown => u_dialog.fetch

\* C4: in a playlist run, once the processing of a selected item has failed, no
\* later selected item is attempted, and the run ends reporting failure: the
\* dialog neither shows 'Download Complete!' nor closes as after a success.
C4_AbortAndReportFailure ==
    w.exc # "none"
        => /\ w.pc \in {"exit", "done"}
           /\ \A e \in 1..Len(log) : log[e].op = "progress" => log[e].k <= w.i + 1
           /\ d_windowTitle # WindowTitle("Download Complete!")
           /\ ~d_closed

\* C6: in a playlist run, for every set of checked rows and every checked row
\* r, the video whose qualities are resolved and whose streams are downloaded
\* for r is the playlist's video at position r.
C6_VideoOfSelectedRow ==
    w.pc \in {"download", "mux"} => w.yt = d_pl[w.rows[w.i + 1] + 1]

====
